---- MODULE Spec2Model ----
(***************************************************************************)
(* linkding-tg-relay: a Telegram bot that saves the first URL of a message *)
(* as a linkding bookmark (src/main.go).                                   *)
(*                                                                         *)
(* Go strings are modelled as sequences of Unicode code points, so that    *)
(* UTF-16 slicing (sliceUtf16) is computed as the code computes it.        *)
(* Usernames, reply texts, titles and error texts are only ever compared   *)
(* or copied by the code and are modelled as TLA+ strings.                 *)
(* A nil pointer is a record whose present field is FALSE.                 *)
(***************************************************************************)
EXTENDS Integers, Sequences, FiniteSets, TLC

\* ------------------------------------------------------------------------
\* Bounds of the model
\* ------------------------------------------------------------------------

\* longest message text (in code points) drawn for the extractor functions
MaxTextLen == 2

\* largest span offset and span length drawn for the extractor functions
MaxOffset == 2

\* ------------------------------------------------------------------------
\* What is observed of each chat's message: the calls made while handling it
\* ------------------------------------------------------------------------

VARIABLES
    extractorCalls, \* observed: calls of b.urlExtractor for the message
    saveCalls,      \* observed: the arguments of the calls of Save
    getCalls,       \* observed: the URLs of the calls of GetPageInfo
    getResp,        \* observed: what the GET of GetPageInfo met
    pageRet,        \* observed: what GetPageInfo returned
    createCalls,    \* observed: the payloads of the calls of CreateBookmark
    postCalls,      \* observed: the POST requests handed to client.Do
    postResp,       \* observed: what the POST met
    createRet,      \* observed: what CreateBookmark returned
    sent            \* observed: the SendMessage calls for the message

\* ------------------------------------------------------------------------
\* Strings
\* ------------------------------------------------------------------------

EmptyString == <<>>

Str(r) == <<r>>

\* "http://"
HttpPrefix == <<104, 116, 116, 112, 58, 47, 47>>

\* unicode/utf16: one code unit below 0x10000 (surrogate code points are
\* replaced by U+FFFD), a surrogate pair from 0x10000 on
utf16EncodeRune(r) ==
    IF r >= 65536
      THEN <<55296 + ((r - 65536) \div 1024), 56320 + ((r - 65536) % 1024)>>
      ELSE IF r >= 55296 /\ r < 57344 THEN <<65533>> ELSE <<r>>

RECURSIVE utf16Encode(_)
utf16Encode(s) ==
    IF s = <<>> THEN <<>> ELSE utf16EncodeRune(Head(s)) \o utf16Encode(Tail(s))

IsHighSurrogate(u) == u >= 55296 /\ u < 56320

IsLowSurrogate(u) == u >= 56320 /\ u < 57344

\* unicode/utf16: a high surrogate followed by a low one is one code point,
\* any other surrogate decodes to U+FFFD
RECURSIVE utf16Decode(_)
utf16Decode(u) ==
    IF u = <<>> THEN <<>>
    ELSE IF Len(u) >= 2 /\ IsHighSurrogate(u[1]) /\ IsLowSurrogate(u[2])
      THEN <<65536 + (u[1] - 55296) * 1024 + (u[2] - 56320)>>
             \o utf16Decode(Tail(Tail(u)))
    ELSE IF IsHighSurrogate(u[1]) \/ IsLowSurrogate(u[1])
      THEN <<65533>> \o utf16Decode(Tail(u))
    ELSE <<u[1]>> \o utf16Decode(Tail(u))

\* The result of a Go call that may panic: ok = FALSE is the panic.
Returned(v) == [ok |-> TRUE, val |-> v]

Panicked == [ok |-> FALSE, val |-> <<>>]

\* mutant: the code points sliced, not the UTF-16 code units
sliceUtf16_CodePoints(s, start, end) ==
    IF 0 <= start /\ start <= end /\ end <= Len(s)
      THEN Returned(SubSeq(s, start + 1, end))
      ELSE Panicked

\* A slice expression a[start:end] panics unless 0 <= start <= end <= len(a).
sliceUtf16(s, start, end) ==
    LET units == utf16Encode(s)
    IN  IF 0 <= start /\ start <= end /\ end <= Len(units)
          THEN Returned(utf16Decode(SubSeq(units, start + 1, end)))
          ELSE Panicked

\* ------------------------------------------------------------------------
\* Messages (echotron.Message, the fields the code reads)
\* ------------------------------------------------------------------------

NoUser == [present |-> FALSE, Username |-> ""]

User(name) == [present |-> TRUE, Username |-> name]

NoLinkPreview == [present |-> FALSE, URL |-> EmptyString, IsDisabled |-> FALSE]

LinkPreview(url, disabled) == [present |-> TRUE, URL |-> url, IsDisabled |-> disabled]

Entity(type, url, offset, length) ==
    [Type |-> type, URL |-> url, Offset |-> offset, Length |-> length]

Message(from, text, entities, captionEntities, link) ==
    [From |-> from, Text |-> text, Entities |-> entities,
     CaptionEntities |-> captionEntities, LinkPreviewOptions |-> link]

\* ------------------------------------------------------------------------
\* URL extractors
\* ------------------------------------------------------------------------

\* mutant: the filter on the span's type dropped
IsLinkEntity_AnyType(entity) == TRUE

IsLinkEntity(entity) == entity.Type = "url" \/ entity.Type = "text_link"

\* mutant: the text sliced even when the span carries an explicit URL
EntityUrl_AlwaysSliced(text, entity) ==
    sliceUtf16(text, entity.Offset, entity.Offset + entity.Length)

\* the loop body of GetUrlsFromEntities for one url/text_link entity
EntityUrl(text, entity) ==
    IF entity.URL # EmptyString
      THEN Returned(entity.URL)
      ELSE sliceUtf16(text, entity.Offset, entity.Offset + entity.Length)

RECURSIVE EntitiesLoop(_, _, _)
EntitiesLoop(text, allEntities, urls) ==
    IF allEntities = <<>> THEN Returned(urls)
    ELSE LET entity == Head(allEntities)
         IN  IF ~IsLinkEntity(entity)
               THEN EntitiesLoop(text, Tail(allEntities), urls)
               ELSE LET entityUrl == EntityUrl(text, entity)
                    IN  IF ~entityUrl.ok THEN Panicked
                        ELSE EntitiesLoop(text, Tail(allEntities),
                                          Append(urls, entityUrl.val))

GetUrlsFromEntities(msg) ==
    EntitiesLoop(msg.Text, msg.Entities \o msg.CaptionEntities, <<>>)

\* mutant: the disabled flag not read
GetUrlsFromLinkPreview_IgnoreDisabled(msg) ==
    LET link == msg.LinkPreviewOptions
    IN  IF link.present /\ link.URL # EmptyString
          THEN Returned(<<link.URL>>)
          ELSE Returned(<<>>)

GetUrlsFromLinkPreview(msg) ==
    LET link == msg.LinkPreviewOptions
    IN  IF link.present /\ link.URL # EmptyString /\ ~link.IsDisabled
          THEN Returned(<<link.URL>>)
          ELSE Returned(<<>>)

RECURSIVE distinctLoop(_, _, _)
distinctLoop(arr, seen, unique) ==
    IF arr = <<>> THEN unique
    ELSE IF Head(arr) \in seen
      THEN distinctLoop(Tail(arr), seen, unique)
      ELSE distinctLoop(Tail(arr), seen \cup {Head(arr)}, Append(unique, Head(arr)))

\* mutant: nothing removed
distinct_KeepAll(arr) == arr

distinct(arr) == distinctLoop(arr, {}, <<>>)

\* an extractor function value, by name
ExtractorNames == {"GetUrlsFromLinkPreview", "GetUrlsFromEntities"}

CallExtractor(extractor, msg) ==
    IF extractor = "GetUrlsFromLinkPreview"
      THEN GetUrlsFromLinkPreview(msg)
      ELSE GetUrlsFromEntities(msg)

RECURSIVE ExtractorsLoop(_, _, _)
ExtractorsLoop(extractors, msg, urls) ==
    IF extractors = <<>> THEN Returned(urls)
    ELSE LET out == CallExtractor(Head(extractors), msg)
         IN  IF ~out.ok THEN Panicked
             ELSE ExtractorsLoop(Tail(extractors), msg, urls \o out.val)

\* the closure returned by GetUrlsWithExtractors(extractors...), applied to msg
GetUrlsWithExtractors(extractors, msg) ==
    LET urls == ExtractorsLoop(extractors, msg, <<>>)
    IN  IF urls.ok THEN Returned(distinct(urls.val)) ELSE Panicked

\* mutant: the comparison of the loop inverted
contains_Inverted(arr, str) == \E i \in 1..Len(arr) : arr[i] # str

contains(arr, str) == \E i \in 1..Len(arr) : arr[i] = str

\* ------------------------------------------------------------------------
\* Errors (errorx): a chain of layers, outermost first; nil is the empty chain
\* ------------------------------------------------------------------------

NoError == <<>>

ErrorLayer(text, code) == [text |-> text, code |-> code]

\* an error created by a library below the code (net/http, io, net/url, urlx)
Cause(text) == <<ErrorLayer(text, 0)>>

\* errorx.Decorate(err, text)
Decorate(err, text) == <<ErrorLayer(text, 0)>> \o err

\* errorx.IllegalState.New("unexpected status code %d", code)
StatusError(code) == <<ErrorLayer("unexpected status code %d", code)>>

\* ------------------------------------------------------------------------
\* Bookmark repository
\* ------------------------------------------------------------------------

ApplicationJson == "application/json"

StatusCreated == 201

\* the status codes the bookmark service answers with
StatusCodes == {200, StatusCreated, 202, 204, 500}

\* what the network does to one POST: client.Do fails, io.ReadAll fails, or
\* a response with a status code is read
PostResponses ==
    {[kind |-> "send_error", status |-> 0], [kind |-> "read_error", status |-> 0]}
      \cup {[kind |-> "response", status |-> s] : s \in StatusCodes}

\* LINKDING_BASE_URL: one value url.JoinPath accepts, one it rejects
BaseUrls == {"http://linkding", ":linkding"}

NewLinkdingRepository(baseUrl, apiToken) == [baseUrl |-> baseUrl, apiToken |-> apiToken]

\* url.JoinPath(l.baseUrl, "api/bookmarks/")
JoinPath(baseUrl) ==
    IF baseUrl = "http://linkding"
      THEN [err |-> NoError, path |-> "http://linkding/api/bookmarks/"]
      ELSE [err |-> Cause("parse: missing protocol scheme"), path |-> ""]

PostRequest(l, path, payload) ==
    [method |-> "POST", path |-> path, contentType |-> ApplicationJson,
     authorization |-> <<"Token", l.apiToken>>, body |-> payload]

\* mutant: every 2xx status accepted
StatusResult_Any2xx(status) ==
    IF status < 200 \/ status >= 300 THEN StatusError(status) ELSE NoError

StatusResult(status) ==
    IF status # StatusCreated THEN StatusError(status) ELSE NoError

\* mutant: a failed client.Do is tried once more
CreateBookmark_SendRetried(l, payload, resp) ==
    LET joined == JoinPath(l.baseUrl)
        req == PostRequest(l, joined.path, payload)
    IN  IF joined.err # NoError
          THEN [err |-> Decorate(joined.err, "failed to join path"), requests |-> <<>>]
        ELSE IF resp.kind = "send_error"
          THEN [err |-> Decorate(Cause("net/http: transport"), "failed to send request"),
                requests |-> <<req, req>>]
        ELSE IF resp.kind = "read_error"
          THEN [err |-> Decorate(Cause("io: unexpected EOF"), "failed to read response body"),
                requests |-> <<req>>]
        ELSE [err |-> StatusResult(resp.status), requests |-> <<req>>]

\* linkdingRepository.CreateBookmark: the error returned and the requests
\* handed to client.Do.  json.Marshal cannot fail on CreateBookmarkPayload and
\* http.NewRequest cannot fail on a path url.JoinPath returned.
CreateBookmark(l, payload, resp) ==
    LET joined == JoinPath(l.baseUrl)
        req == PostRequest(l, joined.path, payload)
    IN  IF joined.err # NoError
          THEN [err |-> Decorate(joined.err, "failed to join path"), requests |-> <<>>]
        ELSE IF resp.kind = "send_error"
          THEN [err |-> Decorate(Cause("net/http: transport"), "failed to send request"),
                requests |-> <<req>>]
        ELSE IF resp.kind = "read_error"
          THEN [err |-> Decorate(Cause("io: unexpected EOF"), "failed to read response body"),
                requests |-> <<req>>]
        ELSE [err |-> StatusResult(resp.status), requests |-> <<req>>]

\* ------------------------------------------------------------------------
\* Page info service
\* ------------------------------------------------------------------------

NoOembed == [present |-> FALSE, Title |-> "", Description |-> ""]

Oembed(title, description) ==
    [present |-> TRUE, Title |-> title, Description |-> description]

Page(title, description, oembed) ==
    [kind |-> "page", Title |-> title, Description |-> description, oembed |-> oembed]

\* what the network and the HTML parser do to one GET: http.Get fails,
\* info.Parse fails, or a page is parsed (with or without an oEmbed record)
PageResponses ==
    {[kind |-> "get_error", Title |-> "", Description |-> "", oembed |-> NoOembed],
     [kind |-> "parse_error", Title |-> "", Description |-> "", oembed |-> NoOembed],
     Page("", "", NoOembed),
     Page("Example", "An example page", NoOembed),
     Page("Example", "An example page", Oembed("Embedded", ""))}

NoPageInfo == [url |-> EmptyString, title |-> "", description |-> ""]

\* mutant: a page without a title is an error
GetPageInfo_TitleRequired(url, resp) ==
    IF resp.kind = "get_error"
      THEN [err |-> Decorate(Cause("net/http: transport"), "failed to fetch URL"),
            info |-> NoPageInfo]
    ELSE IF resp.kind = "parse_error" \/ (~resp.oembed.present /\ resp.Title = "")
      THEN [err |-> Decorate(Cause("htmlinfo: parse"), "failed to parse page info"),
            info |-> NoPageInfo]
    ELSE IF resp.oembed.present
      THEN [err |-> NoError,
            info |-> [url |-> url, title |-> resp.oembed.Title,
                      description |-> resp.oembed.Description]]
    ELSE [err |-> NoError,
          info |-> [url |-> url, title |-> resp.Title, description |-> resp.Description]]

\* pageInfoService.GetPageInfo
GetPageInfo(url, resp) ==
    IF resp.kind = "get_error"
      THEN [err |-> Decorate(Cause("net/http: transport"), "failed to fetch URL"),
            info |-> NoPageInfo]
    ELSE IF resp.kind = "parse_error"
      THEN [err |-> Decorate(Cause("htmlinfo: parse"), "failed to parse page info"),
            info |-> NoPageInfo]
    ELSE IF resp.oembed.present
      THEN [err |-> NoError,
            info |-> [url |-> url, title |-> resp.oembed.Title,
                      description |-> resp.oembed.Description]]
    ELSE [err |-> NoError,
          info |-> [url |-> url, title |-> resp.Title, description |-> resp.Description]]

\* ------------------------------------------------------------------------
\* Link service
\* ------------------------------------------------------------------------

ToLower(r) == IF r >= 65 /\ r <= 90 THEN r + 32 ELSE r

HasPrefix(s, prefix) ==
    Len(s) >= Len(prefix) /\ SubSeq(s, 1, Len(prefix)) = prefix

\* urlx.NormalizeString over the model's strings: the empty string and a
\* string with a space in its host are rejected; otherwise the scheme
\* defaults to http and the host is lower-cased
NormalizeString(url) ==
    IF url = EmptyString \/ \E i \in 1..Len(url) : url[i] = 32
      THEN [err |-> Cause("urlx: invalid url"), val |-> EmptyString]
      ELSE LET lower == [i \in 1..Len(url) |-> ToLower(url[i])]
           IN  [err |-> NoError,
                val |-> IF HasPrefix(lower, HttpPrefix) THEN lower ELSE HttpPrefix \o lower]

NoPayload ==
    [URL |-> EmptyString, Title |-> "", Description |-> "", Notes |-> "",
     IsArchived |-> FALSE, Unread |-> FALSE, Shared |-> FALSE, TagNames |-> <<>>]

\* the CreateBookmarkPayload literal of linkdingLinkService.Save
NewPayload(normalizedUrl, pageInfo) ==
    [URL |-> normalizedUrl, Title |-> pageInfo.title,
     Description |-> pageInfo.description, Notes |-> "",
     IsArchived |-> FALSE, Unread |-> TRUE, Shared |-> FALSE, TagNames |-> <<>>]

NewLinkdingLinkService(repository, pageInfoService) ==
    [repository |-> repository, pageInfoService |-> pageInfoService]

\* The return of a call in progress or finished: returned = FALSE until it returns.
NotReturned == [returned |-> FALSE, err |-> NoError]

ReturnedErr(err) == [returned |-> TRUE, err |-> err]

\* mutant: the raw URL carried on instead of its normal form
SaveNormalize_Raw(url) ==
    LET n == NormalizeString(url)
    IN  IF n.err # NoError
          THEN [ret |-> ReturnedErr(Decorate(n.err, "failed to normalize URL")),
                normalizedUrl |-> EmptyString]
          ELSE [ret |-> NotReturned, normalizedUrl |-> url]

\* Save up to its first blocking call: the normalization
SaveNormalize(url) ==
    LET n == NormalizeString(url)
    IN  IF n.err # NoError
          THEN [ret |-> ReturnedErr(Decorate(n.err, "failed to normalize URL")),
                normalizedUrl |-> EmptyString]
          ELSE [ret |-> NotReturned, normalizedUrl |-> n.val]

\* mutant: the error of GetPageInfo not checked
SaveAfterPageInfo_ErrorIgnored(normalizedUrl, got) ==
    [ret |-> NotReturned, payload |-> NewPayload(normalizedUrl, got.info)]

\* mutant: a URL some CreateBookmark call already carried is not submitted again
SaveAfterPageInfo_Cached(normalizedUrl, got) ==
    IF got.err # NoError
      THEN [ret |-> ReturnedErr(Decorate(got.err, "failed to get page info")),
            payload |-> NoPayload]
    ELSE IF \E c \in DOMAIN createCalls :
              \E i \in 1..Len(createCalls[c]) : createCalls[c][i].URL = normalizedUrl
      THEN [ret |-> ReturnedErr(NoError), payload |-> NoPayload]
    ELSE [ret |-> NotReturned, payload |-> NewPayload(normalizedUrl, got.info)]

\* Save after GetPageInfo returned
SaveAfterPageInfo(normalizedUrl, got) ==
    IF got.err # NoError
      THEN [ret |-> ReturnedErr(Decorate(got.err, "failed to get page info")),
            payload |-> NoPayload]
      ELSE [ret |-> NotReturned, payload |-> NewPayload(normalizedUrl, got.info)]

\* mutant: the error kept in a field shared by every Save in flight
SaveAfterCreateBookmark_SharedErr(err) ==
    IF \E d \in DOMAIN createRet : createRet[d].returned /\ createRet[d].err # NoError
      THEN ReturnedErr((CHOOSE r \in {createRet[d] : d \in DOMAIN createRet} :
                           r.returned /\ r.err # NoError).err)
      ELSE ReturnedErr(err)

\* Save after CreateBookmark returned: "return err"
SaveAfterCreateBookmark(err) == ReturnedErr(err)

\* ------------------------------------------------------------------------
\* Bot
\* ------------------------------------------------------------------------

ReplyNotAllowed == "You are not allowed to use this bot"

ReplyNoUrls == "No URLs found in the message"

ReplyError == "Error"

ReplySaved == "Saved!"

\* mutant: the error of Save ignored
ReplyFor_AlwaysSaved(err) == ReplySaved

\* the text bot.Update sends once Save returned err
ReplyFor(err) == IF err # NoError THEN ReplyError ELSE ReplySaved

\* mutant: the last URL taken instead of the first
FirstUrl_Last(urls) == urls[Len(urls)]

\* firstUrl := urls[0]
FirstUrl(urls) == urls[1]

\* ALLOWED_USERNAMES
AllowedUsernames == <<"bob", "alice">>

\* mutant: the span extractor wired before the link-preview extractor
MainExtractors_EntitiesFirst == <<"GetUrlsFromEntities", "GetUrlsFromLinkPreview">>

\* urlExtractor := GetUrlsWithExtractors(GetUrlsFromLinkPreview, GetUrlsFromEntities)
MainExtractors == <<"GetUrlsFromLinkPreview", "GetUrlsFromEntities">>

NewBotFactory(tgToken, allowedUsernames, urlExtractor, linkService, api) ==
    [tgToken |-> tgToken, allowedUsernames |-> allowedUsernames,
     urlExtractor |-> urlExtractor, linkService |-> linkService, api |-> api]

\* the wiring of main, for one LINKDING_BASE_URL
MainFactory(baseUrl) ==
    NewBotFactory("token", AllowedUsernames, MainExtractors,
                  NewLinkdingLinkService(NewLinkdingRepository(baseUrl, "apitoken"),
                                         "pageInfoService"),
                  "api")

\* the closure returned by botFactory.NewBot(), applied to chatId
NewBot(b, chatId) ==
    [present |-> TRUE, chatId |-> chatId, allowedUsernames |-> b.allowedUsernames,
     urlExtractor |-> b.urlExtractor, linkService |-> b.linkService, API |-> b.api]

\* bot.Update from its entry to its first blocking call (GetPageInfo's GET or
\* SendMessage) or to its panic: msg.From.Username dereferences a nil From,
\* and the extractor panics on a span outside the text.
UpdateStart(b, m) ==
    LET quiet == [pc |-> "panic", extractorCalls |-> 0, urls |-> <<>>,
                  saveCalls |-> <<>>, normalizedUrl |-> EmptyString,
                  saveRet |-> NotReturned, replyText |-> ""]
    IN  IF ~m.From.present THEN quiet
        ELSE IF ~contains(b.allowedUsernames, m.From.Username)
          THEN [quiet EXCEPT !.pc = "SendMessage", !.replyText = ReplyNotAllowed]
        ELSE LET urls == GetUrlsWithExtractors(b.urlExtractor, m)
             IN  IF ~urls.ok THEN [quiet EXCEPT !.extractorCalls = 1]
                 ELSE IF Len(urls.val) = 0
                   THEN [quiet EXCEPT !.pc = "SendMessage", !.extractorCalls = 1,
                                      !.replyText = ReplyNoUrls]
                 ELSE LET firstUrl == FirstUrl(urls.val)
                          save == SaveNormalize(firstUrl)
                      IN  [pc |-> IF save.ret.returned THEN "SendMessage" ELSE "GetPageInfo",
                           extractorCalls |-> 1,
                           urls |-> urls.val,
                           saveCalls |-> <<firstUrl>>,
                           normalizedUrl |-> save.normalizedUrl,
                           saveRet |-> save.ret,
                           replyText |-> IF save.ret.returned
                                           THEN ReplyFor(save.ret.err) ELSE ""]

\* ------------------------------------------------------------------------
\* Inputs
\* ------------------------------------------------------------------------

\* the chats the dispatcher keeps a bot instance for
Chats == {1, 2}

\* "\U0001F600A": one code point of two UTF-16 units, then "A" at offset 2
InboxText == <<128512, 65>>

\* no span; a url span on "A"; a url span ending beyond the text; a
\* text_link whose explicit URL is " "
InboxEntities ==
    {<<>>,
     <<Entity("url", EmptyString, 2, 1)>>,
     <<Entity("url", EmptyString, 2, 2)>>,
     <<Entity("text_link", Str(32), 0, 2)>>}

\* no link preview; an enabled link preview of "b"
InboxLinkPreviews == {NoLinkPreview, LinkPreview(Str(98), FALSE)}

\* messages of an allowed sender: every pairing of the spans and link previews
InboxAllowed ==
    {Message(User("alice"), InboxText, entities, <<>>, link) :
       entities \in InboxEntities, link \in InboxLinkPreviews}

\* messages of an allowed sender with a span of another kind only, with a
\* url caption span beyond the text, and with a disabled link preview only
InboxOtherSpans ==
    {Message(User("alice"), InboxText, <<Entity("bold", EmptyString, 0, 9)>>, <<>>,
             NoLinkPreview),
     Message(User("alice"), InboxText, <<>>, <<Entity("url", EmptyString, 5, 1)>>,
             NoLinkPreview),
     Message(User("alice"), InboxText, <<>>, <<>>, LinkPreview(Str(98), TRUE))}

\* messages with no sender record and of a sender outside the allow-list,
\* with and without URLs
InboxOtherSenders ==
    {Message(from, InboxText, entities, <<>>, LinkPreview(Str(98), FALSE)) :
       from \in {NoUser, User("mallory")},
       entities \in {<<>>, <<Entity("url", EmptyString, 2, 1)>>}}

\* the messages delivered to bot.Update
Inbox == InboxAllowed \cup InboxOtherSpans \cup InboxOtherSenders

NoMessage == Message(NoUser, EmptyString, <<>>, <<>>, NoLinkPreview)

NoBot ==
    [present |-> FALSE, chatId |-> 0, allowedUsernames |-> <<>>,
     urlExtractor |-> <<>>, linkService |-> NewLinkdingLinkService(
       NewLinkdingRepository("", ""), ""), API |-> ""]

\* ------------------------------------------------------------------------
\* State: one bot instance and one bot.Update at a time per chat
\* ------------------------------------------------------------------------

VARIABLES
    factory,        \* the botFactory main built
    bots,           \* the dispatcher's bot instance of each chat
    pc,             \* where each chat's bot.Update is
    msg,            \* update.Message of the Update in progress (or the last one)
    urls,           \* urls in bot.Update
    normalizedUrl,  \* normalizedUrl in Save
    payload,        \* payload in Save
    saveRet,        \* what Save returned to bot.Update
    replyText,      \* the text bot.Update passes to maybeSendMessage
    xmsg,           \* extractor harness: the message
    xfn,            \* extractor harness: the function applied
    xextractors,    \* extractor harness: the extractors combined
    xout             \* extractor harness: the result

botVars == <<factory, bots, pc, msg, urls, normalizedUrl, payload, saveRet, replyText>>

seenVars ==
    <<extractorCalls, saveCalls, getCalls, getResp, pageRet, createCalls,
      postCalls, postResp, createRet, sent>>

xVars == <<xmsg, xfn, xextractors, xout>>

vars == <<botVars, seenVars, xVars>>

NoPostResp == [kind |-> "none", status |-> 0]

NoPageResp == [kind |-> "none", Title |-> "", Description |-> "", oembed |-> NoOembed]

NoPageRet == [returned |-> FALSE, err |-> NoError, info |-> NoPageInfo]

InitBots(baseUrls) ==
    /\ factory \in {MainFactory(baseUrl) : baseUrl \in baseUrls}
    /\ bots = [c \in Chats |-> NoBot]
    /\ pc = [c \in Chats |-> "idle"]
    /\ msg = [c \in Chats |-> NoMessage]
    /\ urls = [c \in Chats |-> <<>>]
    /\ normalizedUrl = [c \in Chats |-> EmptyString]
    /\ payload = [c \in Chats |-> NoPayload]
    /\ saveRet = [c \in Chats |-> NotReturned]
    /\ replyText = [c \in Chats |-> ""]
    /\ extractorCalls = [c \in Chats |-> 0]
    /\ saveCalls = [c \in Chats |-> <<>>]
    /\ getCalls = [c \in Chats |-> <<>>]
    /\ getResp = [c \in Chats |-> NoPageResp]
    /\ pageRet = [c \in Chats |-> NoPageRet]
    /\ createCalls = [c \in Chats |-> <<>>]
    /\ postCalls = [c \in Chats |-> <<>>]
    /\ postResp = [c \in Chats |-> NoPostResp]
    /\ createRet = [c \in Chats |-> NotReturned]
    /\ sent = [c \in Chats |-> <<>>]

InitHarness ==
    /\ xmsg = NoMessage
    /\ xfn = "none"
    /\ xextractors = <<>>
    /\ xout = Returned(<<>>)

Init == InitBots(BaseUrls) /\ InitHarness

\* An unrecovered panic in a goroutine ends the process.
Running == \A c \in Chats : pc[c] # "panic"

\* mutant: the instance of another chat handed out when one exists
BotOf_Shared(c) ==
    IF bots[c].present THEN bots[c]
    ELSE IF \E d \in Chats : bots[d].present
      THEN bots[CHOOSE d \in Chats : bots[d].present]
    ELSE NewBot(factory, c)

\* the dispatcher's instance for chat c: made by the factory on first use
BotOf(c) == IF bots[c].present THEN bots[c] ELSE NewBot(factory, c)

\* ------------------------------------------------------------------------
\* Actions
\* ------------------------------------------------------------------------

\* bot.Update(update) with update.Message == nil: returns at once
UpdateWithoutMessage(c) ==
    /\ Running
    /\ pc[c] = "idle"
    /\ bots' = [bots EXCEPT ![c] = BotOf(c)]
    /\ UNCHANGED <<factory, pc, msg, urls, normalizedUrl, payload, saveRet, replyText>>
    /\ UNCHANGED <<seenVars, xVars>>

\* bot.Update(update) with a message, up to its first blocking call
Update(c, m) ==
    /\ Running
    /\ pc[c] = "idle"
    /\ LET b == BotOf(c)
           r == UpdateStart(b, m)
       IN  /\ bots' = [bots EXCEPT ![c] = b]
           /\ msg' = [msg EXCEPT ![c] = m]
           /\ pc' = [pc EXCEPT ![c] = r.pc]
           /\ urls' = [urls EXCEPT ![c] = r.urls]
           /\ normalizedUrl' = [normalizedUrl EXCEPT ![c] = r.normalizedUrl]
           /\ saveRet' = [saveRet EXCEPT ![c] = r.saveRet]
           /\ replyText' = [replyText EXCEPT ![c] = r.replyText]
           /\ extractorCalls' = [extractorCalls EXCEPT ![c] = r.extractorCalls]
           /\ saveCalls' = [saveCalls EXCEPT ![c] = r.saveCalls]
    /\ UNCHANGED <<factory, payload, getCalls, getResp, pageRet, createCalls,
                   postCalls, postResp, createRet, sent, xVars>>

\* Save: l.pageInfoService.GetPageInfo(normalizedUrl) returns
SaveGetPageInfo(c, resp) ==
    /\ Running
    /\ pc[c] = "GetPageInfo"
    /\ LET got == GetPageInfo(normalizedUrl[c], resp)
           save == SaveAfterPageInfo(normalizedUrl[c], got)
       IN  /\ getCalls' = [getCalls EXCEPT ![c] = Append(@, normalizedUrl[c])]
           /\ getResp' = [getResp EXCEPT ![c] = resp]
           /\ pageRet' = [pageRet EXCEPT ![c] =
                            [returned |-> TRUE, err |-> got.err, info |-> got.info]]
           /\ payload' = [payload EXCEPT ![c] = save.payload]
           /\ saveRet' = [saveRet EXCEPT ![c] = save.ret]
           /\ replyText' = [replyText EXCEPT ![c] =
                              IF save.ret.returned THEN ReplyFor(save.ret.err) ELSE @]
           /\ pc' = [pc EXCEPT ![c] =
                       IF save.ret.returned THEN "SendMessage" ELSE "CreateBookmark"]
    /\ UNCHANGED <<factory, bots, msg, urls, normalizedUrl>>
    /\ UNCHANGED <<extractorCalls, saveCalls, createCalls, postCalls, postResp,
                   createRet, sent, xVars>>

\* Save: l.repository.CreateBookmark(&payload) returns, and Save with it
SaveCreateBookmark(c, resp) ==
    /\ Running
    /\ pc[c] = "CreateBookmark"
    /\ LET created == CreateBookmark(bots[c].linkService.repository, payload[c], resp)
           ret == SaveAfterCreateBookmark(created.err)
       IN  /\ createCalls' = [createCalls EXCEPT ![c] = Append(@, payload[c])]
           /\ postCalls' = [postCalls EXCEPT ![c] = @ \o created.requests]
           /\ postResp' = [postResp EXCEPT ![c] =
                             IF created.requests = <<>> THEN NoPostResp ELSE resp]
           /\ createRet' = [createRet EXCEPT ![c] = ReturnedErr(created.err)]
           /\ saveRet' = [saveRet EXCEPT ![c] = ret]
           /\ replyText' = [replyText EXCEPT ![c] = ReplyFor(ret.err)]
           /\ pc' = [pc EXCEPT ![c] = "SendMessage"]
    /\ UNCHANGED <<factory, bots, msg, urls, normalizedUrl, payload>>
    /\ UNCHANGED <<extractorCalls, saveCalls, getCalls, getResp, pageRet, sent, xVars>>

\* bot.maybeSendMessage(text): one SendMessage to b.chatId; an error is logged
maybeSendMessage(c, delivered) ==
    /\ Running
    /\ pc[c] = "SendMessage"
    /\ sent' = [sent EXCEPT ![c] =
                  Append(@, [chatId |-> bots[c].chatId, text |-> replyText[c],
                             delivered |-> delivered])]
    /\ pc' = [pc EXCEPT ![c] = "done"]
    /\ UNCHANGED <<factory, bots, msg, urls, normalizedUrl, payload, saveRet, replyText>>
    /\ UNCHANGED <<extractorCalls, saveCalls, getCalls, getResp, pageRet, createCalls,
                   postCalls, postResp, createRet, xVars>>

\* bot.Update returns to the dispatcher: its frame is gone, and what was
\* observed of the message is dropped with it
Return(c) ==
    /\ Running
    /\ pc[c] = "done"
    /\ pc' = [pc EXCEPT ![c] = "idle"]
    /\ msg' = [msg EXCEPT ![c] = NoMessage]
    /\ urls' = [urls EXCEPT ![c] = <<>>]
    /\ normalizedUrl' = [normalizedUrl EXCEPT ![c] = EmptyString]
    /\ payload' = [payload EXCEPT ![c] = NoPayload]
    /\ saveRet' = [saveRet EXCEPT ![c] = NotReturned]
    /\ replyText' = [replyText EXCEPT ![c] = ""]
    /\ extractorCalls' = [extractorCalls EXCEPT ![c] = 0]
    /\ saveCalls' = [saveCalls EXCEPT ![c] = <<>>]
    /\ getCalls' = [getCalls EXCEPT ![c] = <<>>]
    /\ getResp' = [getResp EXCEPT ![c] = NoPageResp]
    /\ pageRet' = [pageRet EXCEPT ![c] = NoPageRet]
    /\ createCalls' = [createCalls EXCEPT ![c] = <<>>]
    /\ postCalls' = [postCalls EXCEPT ![c] = <<>>]
    /\ postResp' = [postResp EXCEPT ![c] = NoPostResp]
    /\ createRet' = [createRet EXCEPT ![c] = NotReturned]
    /\ sent' = [sent EXCEPT ![c] = <<>>]
    /\ UNCHANGED <<factory, bots, xVars>>

Next ==
    \E c \in Chats :
       \/ UpdateWithoutMessage(c)
       \/ \E m \in Inbox : Update(c, m)
       \/ \E resp \in PageResponses : SaveGetPageInfo(c, resp)
       \/ \E resp \in PostResponses : SaveCreateBookmark(c, resp)
       \/ \E delivered \in BOOLEAN : maybeSendMessage(c, delivered)
       \/ Return(c)

Spec == Init /\ [][Next]_vars

\* ------------------------------------------------------------------------
\* The extractor functions on their own
\* ------------------------------------------------------------------------

\* "a" and U+1F600
XRunes == {97, 128512}

RECURSIVE StringsUpTo(_, _)
StringsUpTo(alphabet, n) ==
    IF n = 0 THEN {<<>>}
    ELSE LET shorter == StringsUpTo(alphabet, n - 1)
         IN  shorter \cup {Append(t, r) : t \in shorter, r \in alphabet}

XTexts == StringsUpTo(XRunes, MaxTextLen)

XEntityPool ==
    {Entity(type, url, offset, length) :
       type \in {"url", "text_link", "bold"}, url \in {EmptyString, Str(97)},
       offset \in 0..MaxOffset, length \in 0..MaxOffset}

\* no span, one span of the pool, or one followed by a text_link to "A"
XEntities ==
    {<<>>} \cup {<<e>> : e \in XEntityPool}
      \cup {<<e, Entity("text_link", Str(65), 0, 0)>> : e \in XEntityPool}

XCaptionEntities == {<<>>, <<Entity("url", EmptyString, 1, 1)>>}

XLinkPreviews ==
    {NoLinkPreview, LinkPreview(EmptyString, FALSE), LinkPreview(Str(97), FALSE),
     LinkPreview(Str(97), TRUE)}

XMessages ==
    {Message(User("alice"), text, entities, captionEntities, link) :
       text \in XTexts, entities \in XEntities,
       captionEntities \in XCaptionEntities, link \in XLinkPreviews}

\* the extractor lists handed to GetUrlsWithExtractors
XExtractorLists ==
    {<<>>} \cup {<<e>> : e \in ExtractorNames}
      \cup {<<e, f>> : e \in ExtractorNames, f \in ExtractorNames}

InitExtract ==
    /\ InitBots({"http://linkding"})
    /\ xmsg \in XMessages
    /\ xfn = "none"
    /\ xextractors = <<>>
    /\ xout = Returned(<<>>)

ApplyGetUrlsFromEntities ==
    /\ xfn = "none"
    /\ xfn' = "GetUrlsFromEntities"
    /\ xout' = GetUrlsFromEntities(xmsg)
    /\ UNCHANGED <<botVars, seenVars, xmsg, xextractors>>

ApplyGetUrlsFromLinkPreview ==
    /\ xfn = "none"
    /\ xfn' = "GetUrlsFromLinkPreview"
    /\ xout' = GetUrlsFromLinkPreview(xmsg)
    /\ UNCHANGED <<botVars, seenVars, xmsg, xextractors>>

ApplyGetUrlsWithExtractors(extractors) ==
    /\ xfn = "none"
    /\ xfn' = "GetUrlsWithExtractors"
    /\ xextractors' = extractors
    /\ xout' = GetUrlsWithExtractors(extractors, xmsg)
    /\ UNCHANGED <<botVars, seenVars, xmsg>>

NextExtract ==
    \/ ApplyGetUrlsFromEntities
    \/ ApplyGetUrlsFromLinkPreview
    \/ \E extractors \in XExtractorLists : ApplyGetUrlsWithExtractors(extractors)

SpecExtract == InitExtract /\ [][NextExtract]_vars

\* ------------------------------------------------------------------------
\* Properties
\* ------------------------------------------------------------------------

Range(seq) == {seq[i] : i \in 1..Len(seq)}

\* chat c is handling, or has just handled, a message
Handling(c) == pc[c] # "idle"

\* the handling of chat c's message has ended: Update is at its return, or
\* it panicked
Ended(c) == pc[c] \in {"done", "panic"}

HasSender(c) == Handling(c) /\ msg[c].From.present

SenderAllowed(c) == HasSender(c) /\ msg[c].From.Username \in Range(AllowedUsernames)

SenderNotAllowed(c) == HasSender(c) /\ msg[c].From.Username \notin Range(AllowedUsernames)

\* the url and text_link spans of a message, entities then caption entities
LinkSpans(m) ==
    SelectSeq(m.Entities \o m.CaptionEntities,
              LAMBDA e : e.Type \in {"url", "text_link"})

EnabledLinkPreview(m) ==
    /\ m.LinkPreviewOptions.present
    /\ m.LinkPreviewOptions.URL # EmptyString
    /\ ~m.LinkPreviewOptions.IsDisabled

\* the texts of the SendMessage calls made for chat c's message
SentTexts(c) == [i \in 1..Len(sent[c]) |-> sent[c][i].text]

\* C1: for every inbound message handled by bot.Update exactly one reply is
\* sent: never more than one SendMessage call, and exactly one once the
\* handling has ended.
C1_ExactlyOneReply ==
    \A c \in Chats :
       /\ Len(sent[c]) <= 1
       /\ Ended(c) => Len(sent[c]) = 1

\* C2: for a message whose sender's username is not in the allow-list, the
\* reply is "You are not allowed to use this bot", and the extractor, Save,
\* GetPageInfo and CreateBookmark are never called (no GET, no POST).
C2_NotAllowedRejected ==
    \A c \in Chats :
       SenderNotAllowed(c) =>
          /\ pc[c] \in {"SendMessage", "done"}
          /\ replyText[c] = ReplyNotAllowed
          /\ pc[c] = "done" => SentTexts(c) = <<ReplyNotAllowed>>
          /\ extractorCalls[c] = 0
          /\ saveCalls[c] = <<>>
          /\ getCalls[c] = <<>>
          /\ createCalls[c] = <<>>
          /\ postCalls[c] = <<>>

\* a message of a sender outside the allow-list that carries a url span and
\* an enabled link preview has been answered
C2_Witness ==
    \E c \in Chats :
       /\ SenderNotAllowed(c)
       /\ pc[c] = "done"
       /\ LinkSpans(msg[c]) # <<>>
       /\ EnabledLinkPreview(msg[c])
       /\ SentTexts(c) = <<ReplyNotAllowed>>

\* C3: bot.Update never panics: whatever the message (no sender record, a
\* span beyond the text, a failing pipeline step), its handling ends in a
\* reply.
C3_NeverPanics == \A c \in Chats : pc[c] # "panic"

\* C4: for a message of an allowed sender with a non-empty URL list, the
\* reply is "Saved!" exactly when Save returned no error and "Error"
\* exactly when it returned one, and the reply is none of the error's texts.
C4_ReplyFollowsSave ==
    \A c \in Chats :
       (SenderAllowed(c) /\ urls[c] # <<>> /\ saveRet[c].returned) =>
          /\ pc[c] \in {"SendMessage", "done"}
          /\ replyText[c] = ReplySaved <=> saveRet[c].err = NoError
          /\ replyText[c] = ReplyError <=> saveRet[c].err # NoError
          /\ \A i \in 1..Len(saveRet[c].err) : saveRet[c].err[i].text # replyText[c]
          /\ pc[c] = "done" => SentTexts(c) = <<replyText[c]>>

\* one message was answered "Saved!" after a 201, another "Error" after a
\* status error of CreateBookmark
C4_Witness ==
    \E c, d \in Chats :
       /\ pc[c] = "done" /\ pc[d] = "done"
       /\ SenderAllowed(c) /\ SenderAllowed(d)
       /\ saveRet[c] = ReturnedErr(NoError)
       /\ SentTexts(c) = <<ReplySaved>>
       /\ saveRet[d] = ReturnedErr(StatusError(500))
       /\ SentTexts(d) = <<ReplyError>>

\* C5: for a message of an allowed sender with no url/text_link span and no
\* enabled non-empty link preview, the extractor returns the empty list, the
\* reply is "No URLs found in the message" and Save is not called.
C5_NoUrlsReply ==
    \A c \in Chats :
       (SenderAllowed(c) /\ LinkSpans(msg[c]) = <<>> /\ ~EnabledLinkPreview(msg[c])) =>
          /\ pc[c] \in {"SendMessage", "done"}
          /\ extractorCalls[c] = 1
          /\ urls[c] = <<>>
          /\ replyText[c] = ReplyNoUrls
          /\ pc[c] = "done" => SentTexts(c) = <<ReplyNoUrls>>
          /\ saveCalls[c] = <<>>
          /\ getCalls[c] = <<>>
          /\ createCalls[c] = <<>>

\* two such messages were answered: one with a span of another kind, one
\* with a disabled link preview
C5_Witness ==
    \E c, d \in Chats :
       /\ pc[c] = "done" /\ pc[d] = "done"
       /\ SenderAllowed(c) /\ SenderAllowed(d)
       /\ msg[c].Entities # <<>> /\ LinkSpans(msg[c]) = <<>>
       /\ msg[d].LinkPreviewOptions.present /\ msg[d].LinkPreviewOptions.IsDisabled
       /\ LinkSpans(msg[d]) = <<>>
       /\ SentTexts(c) = <<ReplyNoUrls>>
       /\ SentTexts(d) = <<ReplyNoUrls>>

\* C6: for a message of an allowed sender with n >= 1 extracted URLs, Save
\* is called exactly once, with the first; GetPageInfo and CreateBookmark
\* are called at most once, with the first URL's normal form; no other URL
\* of the list is passed on.
C6_OnlyFirstUrlSaved ==
    \A c \in Chats :
       (SenderAllowed(c) /\ urls[c] # <<>>) =>
          LET first == urls[c][1]
              normal == NormalizeString(first).val
          IN  /\ saveCalls[c] = <<first>>
              /\ \A i \in 2..Len(urls[c]) : urls[c][i] \notin Range(saveCalls[c])
              /\ Len(getCalls[c]) <= 1
              /\ \A u \in Range(getCalls[c]) : u = normal
              /\ Len(createCalls[c]) <= 1
              /\ \A p \in Range(createCalls[c]) : p.URL = normal
              /\ \A r \in Range(postCalls[c]) : r.body.URL = normal

\* a message with two URLs was answered after a GET and a POST
C6_Witness ==
    \E c \in Chats :
       /\ SenderAllowed(c)
       /\ pc[c] = "done"
       /\ Len(urls[c]) = 2
       /\ NormalizeString(urls[c][2]).val # NormalizeString(urls[c][1]).val
       /\ Len(getCalls[c]) = 1
       /\ Len(postCalls[c]) = 1

\* the POST of chat c's CreateBookmark was sent and its response read
PostAnswered(c) == postCalls[c] # <<>> /\ postResp[c].kind = "response"

\* the error names the status code
NamesStatus(err, status) == \E i \in 1..Len(err) : err[i].code = status

\* C7: CreateBookmark returns success exactly when the POST was sent, its
\* response read and the status is 201; for every other status it returns
\* an error naming that status.
C7_CreatedOnly201 ==
    \A c \in Chats :
       createRet[c].returned =>
          /\ createRet[c].err = NoError
               <=> (PostAnswered(c) /\ postResp[c].status = 201)
          /\ (PostAnswered(c) /\ postResp[c].status # 201)
               => NamesStatus(createRet[c].err, postResp[c].status)

\* one CreateBookmark returned success on a 201 while another returned an
\* error on a 200
C7_Witness ==
    \E c, d \in Chats :
       /\ createRet[c] = ReturnedErr(NoError)
       /\ PostAnswered(c) /\ postResp[c].status = 201
       /\ createRet[d].returned /\ createRet[d].err # NoError
       /\ PostAnswered(d) /\ postResp[d].status = 200

\* Save of chat c got its page info and has returned
SavedPastFetch(c) ==
    /\ saveCalls[c] # <<>>
    /\ pageRet[c].returned /\ pageRet[c].err = NoError
    /\ saveRet[c].returned

\* C8: Save is not idempotent: two calls of Save with the same URL that
\* both normalize and fetch make two GetPageInfo calls and two
\* CreateBookmark calls, one each.
C8_SaveNotIdempotent ==
    \A c, d \in Chats :
       (c # d /\ SavedPastFetch(c) /\ SavedPastFetch(d) /\ saveCalls[c] = saveCalls[d]) =>
          /\ Len(getCalls[c]) = 1 /\ Len(getCalls[d]) = 1
          /\ Len(createCalls[c]) = 1 /\ Len(createCalls[d]) = 1
          /\ createCalls[c][1].URL = createCalls[d][1].URL

\* two Saves of the same URL have returned, each after its own POST
C8_Witness ==
    \E c, d \in Chats :
       /\ c # d
       /\ SavedPastFetch(c) /\ SavedPastFetch(d)
       /\ saveCalls[c] = saveCalls[d]
       /\ Len(postCalls[c]) = 1 /\ Len(postCalls[d]) = 1
       /\ postCalls[c][1].body.URL = postCalls[d][1].body.URL

\* the outputs of the combined extractors, in extractor order
XOutputs == [i \in 1..Len(xextractors) |-> CallExtractor(xextractors[i], xmsg)]

RECURSIVE Flatten(_)
Flatten(seqs) == IF seqs = <<>> THEN <<>> ELSE Head(seqs).val \o Flatten(Tail(seqs))

\* the index of the first occurrence of x in seq
FirstIndex(seq, x) == CHOOSE i \in 1..Len(seq) : seq[i] = x /\ \A j \in 1..(i - 1) : seq[j] # x

\* C9: the combined extractor returns the concatenation of its extractors'
\* outputs without the later duplicates: no two equal strings, exactly the
\* strings of the outputs, in the order of their first occurrence.
C9_CombinedDistinct ==
    (xfn = "GetUrlsWithExtractors" /\ \A i \in 1..Len(xextractors) : XOutputs[i].ok) =>
       LET all == Flatten(XOutputs)
           got == xout.val
       IN  /\ xout.ok
           /\ \A i, j \in 1..Len(got) : i # j => got[i] # got[j]
           /\ Range(got) = Range(all)
           /\ \A i, j \in 1..Len(got) :
                 i < j => FirstIndex(all, got[i]) < FirstIndex(all, got[j])

\* two extractors returned three strings, two of them equal, and the
\* combined result holds two
C9_Witness ==
    /\ xfn = "GetUrlsWithExtractors"
    /\ Len(xextractors) = 2
    /\ \A i \in 1..Len(xextractors) : XOutputs[i].ok
    /\ Len(Flatten(XOutputs)) = 3
    /\ xout.ok /\ Len(xout.val) = 2
    /\ Flatten(XOutputs)[1] # Flatten(XOutputs)[2]

\* C10: GetUrlsFromLinkPreview returns the link preview's URL alone exactly
\* when the link preview is present, its URL non-empty and it is not
\* disabled, and the empty list otherwise; a disabled link preview's URL
\* is not in the list extracted from a message with no spans.
C10_LinkPreviewEnabledOnly ==
    /\ xfn = "GetUrlsFromLinkPreview" =>
          /\ xout.ok
          /\ xout.val = <<xmsg.LinkPreviewOptions.URL>> <=> EnabledLinkPreview(xmsg)
          /\ xout.val = <<>> <=> ~EnabledLinkPreview(xmsg)
    /\ (/\ xfn = "GetUrlsWithExtractors"
        /\ xmsg.LinkPreviewOptions.present /\ xmsg.LinkPreviewOptions.IsDisabled
        /\ LinkSpans(xmsg) = <<>>)
          => xout.ok /\ xmsg.LinkPreviewOptions.URL \notin Range(xout.val)

\* a disabled link preview with a URL, on a message with no link span, went
\* through the main extractor pair
C10_Witness ==
    /\ xfn = "GetUrlsWithExtractors"
    /\ xextractors = MainExtractors
    /\ xmsg.LinkPreviewOptions.present /\ xmsg.LinkPreviewOptions.IsDisabled
    /\ xmsg.LinkPreviewOptions.URL # EmptyString
    /\ LinkSpans(xmsg) = <<>>
    /\ xmsg.Entities # <<>>
    /\ xout = Returned(<<>>)

\* the number of UTF-16 code units of one code point
UnitLen(r) == IF r >= 65536 THEN 2 ELSE 1

\* the number of UTF-16 code units of the first k code points of text
RECURSIVE UnitsBefore(_, _)
UnitsBefore(text, k) ==
    IF k = 0 THEN 0 ELSE UnitsBefore(text, k - 1) + UnitLen(text[k])

\* the span has no explicit URL and lies inside the text
SlicedSpan(text, span) ==
    /\ span.URL = EmptyString
    /\ span.Offset + span.Length <= UnitsBefore(text, Len(text))

\* C11: for a url/text_link span with no explicit URL that lies inside the
\* text, the extracted URL is the text's UTF-16 code units from offset to
\* offset+length, decoded; when offset and offset+length fall on code point
\* boundaries that is the code points between them, however many code units
\* the code points before the span take.
C11_SliceByUtf16Units ==
    (xfn = "GetUrlsFromEntities" /\ xout.ok) =>
       LET text == xmsg.Text
           spans == LinkSpans(xmsg)
       IN  \A i \in 1..Len(spans) :
              SlicedSpan(text, spans[i]) =>
                 LET from == spans[i].Offset
                     to == spans[i].Offset + spans[i].Length
                 IN  /\ i <= Len(xout.val)
                     /\ xout.val[i] =
                          utf16Decode(SubSeq(utf16Encode(text), from + 1, to))
                     /\ \A j, k \in 0..Len(text) :
                           (j <= k /\ UnitsBefore(text, j) = from
                                   /\ UnitsBefore(text, k) = to)
                              => xout.val[i] = SubSeq(text, j + 1, k)

\* the link "a" after U+1F600 was extracted from a span at UTF-16 offsets 2
\* to 3, where the text has only 2 code points
C11_Witness ==
    /\ xfn = "GetUrlsFromEntities"
    /\ xmsg.Text = <<128512, 97>>
    /\ xmsg.Entities = <<Entity("url", EmptyString, 2, 1)>>
    /\ xmsg.CaptionEntities = <<>>
    /\ xout = Returned(<<Str(97)>>)
    /\ Len(xmsg.Text) < 3

\* the fixed fields of the payload Save builds
PayloadDefaults(p) ==
    /\ p.Notes = ""
    /\ p.IsArchived = FALSE
    /\ p.Unread = TRUE
    /\ p.Shared = FALSE
    /\ p.TagNames = <<>>

\* C12: every payload Save passes to CreateBookmark has the normal form of
\* the raw URL as url (not the raw string), the title and description that
\* GetPageInfo returned for that normal form, and the fixed defaults.
C12_PayloadNormalized ==
    \A c \in Chats :
       \A i \in 1..Len(createCalls[c]) :
          LET p == createCalls[c][i]
              raw == saveCalls[c][1]
              normal == NormalizeString(raw)
          IN  /\ normal.err = NoError
              /\ p.URL = normal.val
              /\ normal.val # raw => p.URL # raw
              /\ getCalls[c] = <<normal.val>>
              /\ pageRet[c].returned /\ pageRet[c].err = NoError
              /\ pageRet[c].info.url = normal.val
              /\ p.Title = pageRet[c].info.title
              /\ p.Description = pageRet[c].info.description
              /\ PayloadDefaults(p)
              /\ \A r \in Range(postCalls[c]) : r.body = p

\* the raw URL "A" was posted as "http://a" with an oEmbed title
C12_Witness ==
    \E c \in Chats :
       /\ saveCalls[c] = <<Str(65)>>
       /\ Len(postCalls[c]) = 1
       /\ postCalls[c][1].body.URL = HttpPrefix \o Str(97)
       /\ postCalls[c][1].body.Title = "Embedded"
       /\ postCalls[c][1].body.Unread

\* the raw URL of chat c's Save could not be normalized
NormalizeFailed(c) ==
    saveCalls[c] # <<>> /\ NormalizeString(saveCalls[c][1]).err # NoError

\* GetPageInfo of chat c's Save returned an error
FetchFailed(c) == pageRet[c].returned /\ pageRet[c].err # NoError

\* C13: Save runs normalize, fetch, submit in that order and never goes
\* back: GetPageInfo is called only after the normalization succeeded,
\* CreateBookmark only after GetPageInfo succeeded, and a failed step makes
\* Save return an error with no later step executed.
C13_SaveStepsInOrder ==
    \A c \in Chats :
       /\ getCalls[c] # <<>> =>
             saveCalls[c] # <<>> /\ NormalizeString(saveCalls[c][1]).err = NoError
       /\ createCalls[c] # <<>> =>
             Len(getCalls[c]) = 1 /\ pageRet[c].returned /\ pageRet[c].err = NoError
       /\ postCalls[c] # <<>> => createCalls[c] # <<>>
       /\ pc[c] = "GetPageInfo" => getCalls[c] = <<>> /\ createCalls[c] = <<>>
       /\ pc[c] = "CreateBookmark" => Len(getCalls[c]) = 1 /\ createCalls[c] = <<>>
       /\ NormalizeFailed(c) =>
             /\ saveRet[c].returned /\ saveRet[c].err # NoError
             /\ getCalls[c] = <<>> /\ createCalls[c] = <<>> /\ postCalls[c] = <<>>
       /\ FetchFailed(c) =>
             /\ saveRet[c].returned /\ saveRet[c].err # NoError
             /\ createCalls[c] = <<>> /\ postCalls[c] = <<>>

\* one Save ended at a failed normalization, another at a failed fetch
C13_Witness ==
    \E c, d \in Chats :
       /\ pc[c] = "done" /\ NormalizeFailed(c)
       /\ pc[d] = "done" /\ FetchFailed(d) /\ Len(getCalls[d]) = 1

\* C14: no retries: for one message GetPageInfo is called at most once and
\* CreateBookmark at most once (with at most one POST), and the first
\* failure of either leads straight to the "Error" reply.
C14_NoRetries ==
    \A c \in Chats :
       /\ Len(getCalls[c]) <= 1
       /\ Len(createCalls[c]) <= 1
       /\ Len(postCalls[c]) <= 1
       /\ (FetchFailed(c) \/ (createRet[c].returned /\ createRet[c].err # NoError)) =>
             /\ pc[c] \in {"SendMessage", "done"}
             /\ replyText[c] = ReplyError
             /\ pc[c] = "done" => SentTexts(c) = <<ReplyError>>

\* one message was answered "Error" after one failed GET, another after one
\* failed POST
C14_Witness ==
    \E c, d \in Chats :
       /\ pc[c] = "done" /\ getResp[c].kind = "get_error"
       /\ Len(getCalls[c]) = 1 /\ SentTexts(c) = <<ReplyError>>
       /\ pc[d] = "done" /\ postResp[d].kind = "send_error"
       /\ Len(postCalls[d]) = 1 /\ SentTexts(d) = <<ReplyError>>

\* the error of the layer under Save that made chat c's Save fail
SaveCause(c) ==
    IF NormalizeFailed(c) THEN NormalizeString(saveCalls[c][1]).err
    ELSE IF FetchFailed(c) THEN pageRet[c].err
    ELSE createRet[c].err

\* C15: every error Save returns is the underlying cause of the failing
\* layer (normalization, metadata fetch or persistence) with a description
\* of the Link Service added on top of it.
C15_SaveErrorsWrapped ==
    \A c \in Chats :
       (saveRet[c].returned /\ saveRet[c].err # NoError) =>
          /\ Len(saveRet[c].err) = Len(SaveCause(c)) + 1
          /\ Tail(saveRet[c].err) = SaveCause(c)
          /\ saveRet[c].err[1].text \notin {layer.text : layer \in Range(SaveCause(c))}

\* C16: GetUrlsFromEntities returns one URL per url/text_link span, in span
\* order, and nothing for a span of another kind; the URL is the span's
\* explicit URL when that is non-empty and the text slice only when it is
\* empty.
C16_OneUrlPerLinkSpan ==
    xfn = "GetUrlsFromEntities" =>
       LET spans == LinkSpans(xmsg)
       IN  /\ xout.ok <=>
                \A i \in 1..Len(spans) :
                   spans[i].URL = EmptyString => SlicedSpan(xmsg.Text, spans[i])
           /\ xout.ok =>
                /\ Len(xout.val) = Len(spans)
                /\ \A i \in 1..Len(spans) :
                      IF spans[i].URL # EmptyString
                        THEN xout.val[i] = spans[i].URL
                        ELSE xout.val[i] =
                               sliceUtf16(xmsg.Text, spans[i].Offset,
                                          spans[i].Offset + spans[i].Length).val

\* a sliced url span, an explicit text_link and a caption span gave three
\* URLs in that order
C16_Witness ==
    /\ xfn = "GetUrlsFromEntities"
    /\ Len(xmsg.Entities) = 2
    /\ xmsg.Entities[1].Type = "url" /\ xmsg.Entities[1].URL = EmptyString
    /\ xmsg.Entities[2].Type = "text_link"
    /\ xmsg.CaptionEntities # <<>>
    /\ xout.ok
    /\ Len(xout.val) = 3
    /\ xout.val[1] = Str(128512)
    /\ xout.val[2] = xmsg.Entities[2].URL

\* the page of chat c's GET was parsed and carries no title and no
\* description
EmptyPage(c) == getResp[c] = Page("", "", NoOembed)

\* C17: GetPageInfo fails only when the GET fails or the body cannot be
\* parsed; for a parsed page without metadata it returns empty title and
\* description, and Save goes on to CreateBookmark with those.
C17_EmptyMetadataSaved ==
    \A c \in Chats :
       pageRet[c].returned =>
          /\ pageRet[c].err # NoError
               <=> getResp[c].kind \in {"get_error", "parse_error"}
          /\ EmptyPage(c) =>
                /\ pageRet[c].err = NoError
                /\ pageRet[c].info.title = "" /\ pageRet[c].info.description = ""
                /\ pc[c] \in {"CreateBookmark", "SendMessage", "done"}
                /\ pc[c] = "CreateBookmark" => payload[c].Title = ""
                /\ pc[c] # "CreateBookmark" =>
                      /\ Len(createCalls[c]) = 1
                      /\ createCalls[c][1].Title = ""
                      /\ createCalls[c][1].Description = ""

\* a page without metadata was bookmarked with empty title and description
C17_Witness ==
    \E c \in Chats :
       /\ pc[c] = "done"
       /\ EmptyPage(c)
       /\ Len(postCalls[c]) = 1
       /\ postCalls[c][1].body.Title = ""
       /\ postResp[c].status = 201
       /\ SentTexts(c) = <<ReplySaved>>

\* what handling chat c's message alone gives: a fresh instance for c runs
\* bot.Update on the message, with the GET and the POST answered as c's own
\* were
AloneStart(c) == UpdateStart(NewBot(factory, c), msg[c])

AlonePage(c) == GetPageInfo(AloneStart(c).normalizedUrl, getResp[c])

AloneFetched(c) == SaveAfterPageInfo(AloneStart(c).normalizedUrl, AlonePage(c))

AloneCreated(c) ==
    CreateBookmark(NewBot(factory, c).linkService.repository,
                   AloneFetched(c).payload, postResp[c])

AloneReply(c) ==
    IF createRet[c].returned
      THEN ReplyFor(SaveAfterCreateBookmark(AloneCreated(c).err).err)
    ELSE IF pageRet[c].returned THEN ReplyFor(AloneFetched(c).ret.err)
    ELSE AloneStart(c).replyText

\* C18: with the instances of different chats handling messages in any
\* interleaving, the fields an instance got at construction are never
\* modified, and the reply and the Save, GetPageInfo and CreateBookmark
\* calls of each message are those of handling that message alone.
C18_HandlingIndependent ==
    \A c \in Chats :
       /\ bots[c].present => bots[c] = NewBot(factory, c)
       /\ Handling(c) =>
             /\ urls[c] = AloneStart(c).urls
             /\ saveCalls[c] = AloneStart(c).saveCalls
             /\ extractorCalls[c] = AloneStart(c).extractorCalls
             /\ pageRet[c].returned =>
                   /\ getCalls[c] = <<AloneStart(c).normalizedUrl>>
                   /\ pageRet[c].err = AlonePage(c).err
                   /\ pageRet[c].info = AlonePage(c).info
             /\ createRet[c].returned =>
                   /\ createCalls[c] = <<AloneFetched(c).payload>>
                   /\ postCalls[c] = AloneCreated(c).requests
                   /\ createRet[c].err = AloneCreated(c).err
                   /\ saveRet[c] = ReturnedErr(AloneCreated(c).err)
             /\ pc[c] \in {"SendMessage", "done"} => replyText[c] = AloneReply(c)
             /\ pc[c] = "done" => SentTexts(c) = <<AloneReply(c)>>

\* two chats handled the same message at once, both past the fetch; the
\* POST of one was refused while the other's had not returned yet, and the
\* other then got its bookmark
C18_Witness ==
    \E c, d \in Chats :
       /\ c # d
       /\ msg[c] = msg[d]
       /\ pc[c] = "done" /\ pc[d] = "done"
       /\ createRet[c] = ReturnedErr(StatusError(500))
       /\ sent[c] = <<[chatId |-> c, text |-> ReplyError, delivered |-> TRUE]>>
       /\ createRet[d] = ReturnedErr(NoError)
       /\ sent[d] = <<[chatId |-> d, text |-> ReplySaved, delivered |-> TRUE]>>

\* C19: for a message of an allowed sender with an enabled link preview of
\* non-empty URL p and url/text_link spans that yield URLs, the extracted
\* list starts with p and the URL passed to Save is p, not a span's URL.
C19_LinkPreviewFirst ==
    \A c \in Chats :
       (/\ SenderAllowed(c)
        /\ EnabledLinkPreview(msg[c])
        /\ LinkSpans(msg[c]) # <<>>
        /\ pc[c] # "panic") =>
          /\ urls[c][1] = msg[c].LinkPreviewOptions.URL
          /\ saveCalls[c] = <<msg[c].LinkPreviewOptions.URL>>
          /\ getCalls[c] # <<>> =>
                getCalls[c][1] = NormalizeString(msg[c].LinkPreviewOptions.URL).val

\* a message with a link preview and a span of another URL was saved under
\* the link preview's URL
C19_Witness ==
    \E c \in Chats :
       /\ pc[c] = "done"
       /\ EnabledLinkPreview(msg[c])
       /\ Len(urls[c]) = 2
       /\ urls[c][2] # msg[c].LinkPreviewOptions.URL
       /\ saveCalls[c] = <<msg[c].LinkPreviewOptions.URL>>
       /\ Len(postCalls[c]) = 1
       /\ postCalls[c][1].body.URL = NormalizeString(msg[c].LinkPreviewOptions.URL).val
       /\ SentTexts(c) = <<ReplySaved>>

\* C20: every reply goes to the chat id its instance was created with: a
\* reply for a message of chat c is never sent to another chat, whatever
\* the interleaving, and a failed send ends the handling with no second
\* send and no second Save.
C20_ReplyToOwnChat ==
    \A c \in Chats :
       /\ bots[c].present => bots[c].chatId = c
       /\ \A i \in 1..Len(sent[c]) :
             /\ sent[c][i].chatId = c
             /\ sent[c][i].text = replyText[c]
       /\ (sent[c] # <<>> /\ ~sent[c][1].delivered) =>
             /\ pc[c] = "done"
             /\ Len(sent[c]) = 1
             /\ Len(saveCalls[c]) <= 1
             /\ Len(createCalls[c]) <= 1

\* both chats replied, each to its own chat id, and one send failed after a
\* completed Save
C20_Witness ==
    \E c, d \in Chats :
       /\ c # d
       /\ pc[c] = "done" /\ pc[d] = "done"
       /\ Len(sent[c]) = 1 /\ sent[c][1].chatId = c /\ ~sent[c][1].delivered
       /\ Len(saveCalls[c]) = 1 /\ saveRet[c].returned
       /\ Len(sent[d]) = 1 /\ sent[d][1].chatId = d /\ sent[d][1].delivered

====
